---- MODULE Spec2Model ----
(***************************************************************************)
(* Model of the node-local DHT core in praxis3-skeleton/rn-praxis/dht.c    *)
(* (declarations in dht.h): ring arithmetic, wire codec, responsibility    *)
(* resolution, the lookup cache and the per-opcode message processor.      *)
(*                                                                         *)
(* One step of the model is one call into the core: dht_handle_socket      *)
(* (split by the branch dht_process_message dispatches to), or one of the  *)
(* exported entry points dht_responsible, dht_lookup and send_join.        *)
(* The core is single threaded, so each call runs to completion.           *)
(***************************************************************************)
EXTENDS Integers, Sequences, FiniteSets, TLC

(***************************************************************************)
(* Program constants                                                       *)
(***************************************************************************)
LOOKUP_CACHE_ENTRIES == 30
LOOKUP_CACHE_VALIDIY_MS == 2000

\* <limits.h> ULONG_MAX. It is only ever compared against cache timestamps;
\* the value here lies above every clock reading of the model.
ULONG_MAX == 2147483647

\* dht_id is uint16_t: arithmetic on identifiers is modulo 2^16.
RING_SIZE == 65536

\* enum of message types (dht.h)
LOOKUP == 0
REPLY == 1
STABILIZE == 2
NOTIFY == 3
JOIN == 4
N_OPCODES == 5

(***************************************************************************)
(* Bounds of the model                                                     *)
(***************************************************************************)
\* REPLY messages processed in one behaviour of Spec.
MaxReplies == 2

(***************************************************************************)
(* Values                                                                  *)
(***************************************************************************)
\* struct peer. The IPv4 address is kept as its four bytes, most significant
\* first, so that a byte swap of a 32 bit value is the reversal of the tuple.
Peer(id, ip, port) == [id |-> id, ip |-> ip, port |-> port]

\* A zero-initialised struct peer (the "no valid peer description" sentinel).
ZeroPeer == Peer(0, <<0, 0, 0, 0>>, 0)

SelfPeer == Peer(1000, <<10, 0, 0, 1>>, 4001)
PeerP == Peer(60000, <<10, 0, 0, 2>>, 4002)
PeerQ == Peer(3000, <<10, 0, 0, 3>>, 4003)
PeerC == Peer(50000, <<10, 0, 0, 4>>, 4004)

\* <<predecessor, successor>> as the surrounding program may have set them:
\* not joined, a ring of one node, a ring of several nodes, predecessor only.
Rings ==
    { <<ZeroPeer, ZeroPeer>>, <<SelfPeer, SelfPeer>>,
      <<PeerP, PeerQ>>, <<PeerP, ZeroPeer>> }

\* Inputs of the model
LookupIds == {500, 2000, 40000}
ReplyHashes == {30000, 45000}
ReplyPeers == {ZeroPeer, PeerQ, PeerC}
Originators == {PeerC, SelfPeer}
InvalidOpcodes == {STABILIZE, NOTIFY, JOIN, N_OPCODES, 255}
JoinTargets == {PeerP, ZeroPeer}

\* Clock readings: two successive milliseconds and one a validity period
\* after the first.
Times == {1, 2, LOOKUP_CACHE_VALIDIY_MS + 1}

\* struct dht_message
Message(flags, hash, peer) == [flags |-> flags, hash |-> hash, peer |-> peer]

\* An entry of lookup_cache
Entry(entry, pred, peer) == [entry |-> entry, predecessor |-> pred, peer |-> peer]

Slots == 0..(LOOKUP_CACHE_ENTRIES - 1)

\* Pointers to struct peer, as dht_responsible returns them.
NullPtr == [loc |-> "NULL", idx |-> 0]
SelfPtr == [loc |-> "self", idx |-> 0]
SuccessorPtr == [loc |-> "successor", idx |-> 0]
CachePtr(i) == [loc |-> "lookup_cache", idx |-> i]

VARIABLES
    predecessor,    \* struct peer predecessor
    self,           \* struct peer self
    successor,      \* struct peer successor
    lookup_cache,   \* the table of the most recent lookup replies
    little_endian,  \* byte order of the host the core was built for
    clock,          \* the last reading of time_ms()
    alive,          \* FALSE once the process has called exit()
    op,             \* the branch the last call took
    rx,             \* the datagram the last call received, as on the wire
    sent,           \* the sendto() calls of the last call: <<[msg, addr]>>
    query,          \* the id the last call passed to dht_responsible
    resolved,       \* the pointer that dht_responsible call returned
    replies,        \* number of REPLY messages processed so far
    sendto_result,  \* what the last call's sendto() returned, if it sent
    net,            \* datagrams in flight between the nodes of a ring
    hosts,          \* the globals of the nodes of a ring that are not running
    scenario,       \* the inputs of the case a specification exercises
    outcome         \* what has been observed of that case so far

\* The variables that only the specifications of a whole ring, of the codec
\* and of the ring arithmetic use.
aux == <<net, hosts, scenario, outcome>>

vars == <<predecessor, self, successor, lookup_cache, little_endian, clock,
          alive, op, rx, sent, query, resolved, replies, sendto_result,
          net, hosts, scenario, outcome>>

(***************************************************************************)
(* Wire codec                                                              *)
(***************************************************************************)
swap16(x) == (x % 256) * 256 + (x \div 256)
swap32(b) == <<b[4], b[3], b[2], b[1]>>

ntohs(x) == IF little_endian THEN swap16(x) ELSE x
ntohl(b) == IF little_endian THEN swap32(b) ELSE b
htons(x) == ntohs(x)
htonl(b) == ntohl(b)

dht_deserialize(msg) ==
    Message(msg.flags, ntohs(msg.hash),
            Peer(ntohs(msg.peer.id), ntohl(msg.peer.ip), ntohs(msg.peer.port)))

\* dht_serialize that leaves the message in host byte order.
dht_serialize_Noop(msg) == msg

dht_serialize(msg) == dht_deserialize(msg)

peer_to_sockaddr(peer) ==
    [sin_addr |-> htonl(peer.ip), sin_port |-> htons(peer.port)]

(***************************************************************************)
(* Helpers                                                                 *)
(***************************************************************************)
\* outdated with the validity period itself still counted as valid.
outdated_StrictlyOlder(entry, t) ==
    IF t >= entry THEN (t - entry) > LOOKUP_CACHE_VALIDIY_MS ELSE TRUE

\* unsigned long subtraction time_ms() - entry: a timestamp ahead of the
\* clock wraps around to a value far above the validity period.
outdated(entry, t) ==
    IF t >= entry THEN (t - entry) >= LOOKUP_CACHE_VALIDIY_MS ELSE TRUE

Deref(ptr) ==
    CASE ptr.loc = "self" -> self
      [] ptr.loc = "successor" -> successor
      [] ptr.loc = "lookup_cache" -> lookup_cache[ptr.idx].peer
      [] OTHER -> ZeroPeer

\* a && b && memcmp(a, b, sizeof(struct peer)) == 0; struct peer is packed,
\* so the bytes compared are exactly the three fields.
peer_cmp(a, b) ==
    /\ a.loc # "NULL"
    /\ b.loc # "NULL"
    /\ Deref(a) = Deref(b)

\* dht_id differences are stored back into a dht_id: modulo 2^16.
\* The subtraction left in int, as C's integer promotion computes it before
\* the result is stored into a dht_id.
Sub16_Signed(a, b) == a - b

Sub16(a, b) == (a - b + RING_SIZE) % RING_SIZE

\* is_responsible without the case of a node that is its own predecessor.
is_responsible_NoDegenerate(peer_predecessor, peer, id) ==
    Sub16(peer, id) < Sub16(peer_predecessor, id)

\* is_responsible with the two distances compared the wrong way round.
is_responsible_Swapped(peer_predecessor, peer, id) ==
    \/ peer_predecessor = peer
    \/ Sub16(peer_predecessor, id) < Sub16(peer, id)

is_responsible(peer_predecessor, peer, id) ==
    LET distance_peer_predecessor == Sub16(peer_predecessor, id)
        distance_peer == Sub16(peer, id)
    IN  (peer_predecessor = peer) \/ (distance_peer < distance_peer_predecessor)

\* The cache scan of dht_responsible, from slot i on.
RECURSIVE ScanCache(_, _, _)
ScanCache(i, id, t) ==
    IF i >= LOOKUP_CACHE_ENTRIES THEN NullPtr
    ELSE LET match == is_responsible(lookup_cache[i].predecessor,
                                     lookup_cache[i].peer.id, id)
         IN  IF match /\ ~outdated(lookup_cache[i].entry, t)
             THEN CachePtr(i)
             ELSE ScanCache(i + 1, id, t)

\* dht_responsible with the successor tested before self.
dht_responsible_SuccessorFirst(id, t) ==
    IF is_responsible(self.id, successor.id, id) THEN SuccessorPtr
    ELSE IF is_responsible(predecessor.id, self.id, id) THEN SelfPtr
    ELSE ScanCache(0, id, t)

\* dht_responsible(id), with t the reading of the clock during the call.
dht_responsible(id, t) ==
    IF is_responsible(predecessor.id, self.id, id) THEN SelfPtr
    ELSE IF is_responsible(self.id, successor.id, id) THEN SuccessorPtr
    ELSE ScanCache(0, id, t)

(***************************************************************************)
(* Lookup cache update (process_reply)                                     *)
(***************************************************************************)
\* First loop of process_reply: the slot refreshed, or -1 when the loop ends
\* without a return.
RECURSIVE RefreshScan(_, _, _)
RefreshScan(i, reply, t) ==
    IF i >= LOOKUP_CACHE_ENTRIES THEN -1
    ELSE LET peer_match == lookup_cache[i].peer = reply.peer
             more_recent == lookup_cache[i].entry < t
         IN  IF peer_match /\ more_recent THEN i
             ELSE RefreshScan(i + 1, reply, t)

\* Second loop of process_reply. oldest_time is never assigned in the loop,
\* so it is passed on unchanged.
RECURSIVE OldestScan(_, _, _)
OldestScan(i, oldest_time, oldest_idx) ==
    IF i >= LOOKUP_CACHE_ENTRIES THEN oldest_idx
    ELSE IF lookup_cache[i].entry < oldest_time
         THEN OldestScan(i + 1, oldest_time, i)
         ELSE OldestScan(i + 1, oldest_time, oldest_idx)

\* The slot process_reply writes and whether it was the refresh pass.
ReplySlot(reply, t) ==
    LET r == RefreshScan(0, reply, t)
    IN  IF r >= 0 THEN [idx |-> r, refresh |-> TRUE]
        ELSE [idx |-> OldestScan(0, ULONG_MAX, 0), refresh |-> FALSE]

\* process_reply without the return in its first loop: after a refresh it
\* goes on to the eviction as well.
process_reply_NoReturn(reply, t) ==
    LET s == ReplySlot(reply, t)
        e == OldestScan(0, ULONG_MAX, 0)
    IN  IF s.refresh
        THEN [lookup_cache EXCEPT ![s.idx].entry = t,
                                  ![s.idx].predecessor = reply.hash,
                                  ![e] = Entry(t, reply.hash, reply.peer)]
        ELSE [lookup_cache EXCEPT ![s.idx] = Entry(t, reply.hash, reply.peer)]

process_reply(reply, t) ==
    LET s == ReplySlot(reply, t)
    IN  IF s.refresh
        THEN [lookup_cache EXCEPT ![s.idx].entry = t,
                                  ![s.idx].predecessor = reply.hash]
        ELSE [lookup_cache EXCEPT ![s.idx] = Entry(t, reply.hash, reply.peer)]

(***************************************************************************)
(* Sending                                                                 *)
(***************************************************************************)
\* What sendto() returns to dht_send: the transport took the datagram, or -1.
sendto(sendok) == IF sendok THEN "sent" ELSE "error"

\* dht_send with the perror but without the exit.
dht_send_exits_Never(sendok) == FALSE

\* dht_send: exit(1) when sendto() returned -1.
dht_send_exits(sendok) == sendto(sendok) = "error"

\* dht_send: the call of sendto() with the serialized message and the
\* address derived from the peer.
Datagram(msg, peer) == [msg |-> dht_serialize(msg), addr |-> peer_to_sockaddr(peer)]

\* process_lookup forwarding a LOOKUP rebuilt with self as its originator.
process_lookup_RewritesOriginator(lookup, t) ==
    IF ~peer_cmp(SuccessorPtr, dht_responsible(lookup.hash, t))
    THEN Datagram(Message(LOOKUP, lookup.hash, self), successor)
    ELSE Datagram(Message(REPLY, self.id, successor), lookup.peer)

\* process_lookup answering to the successor instead of the originator.
process_lookup_ReplyToSuccessor(lookup, t) ==
    IF ~peer_cmp(SuccessorPtr, dht_responsible(lookup.hash, t))
    THEN Datagram(lookup, successor)
    ELSE Datagram(Message(REPLY, self.id, successor), successor)

\* process_lookup: the one datagram it hands to dht_send.
process_lookup(lookup, t) ==
    IF ~peer_cmp(SuccessorPtr, dht_responsible(lookup.hash, t))
    THEN Datagram(lookup, successor)
    ELSE Datagram(Message(REPLY, self.id, successor), lookup.peer)

(***************************************************************************)
(* Initial state: globals are zero-initialised; the surrounding program    *)
(* sets self, predecessor and successor before the core is used.           *)
(***************************************************************************)
NoMessage == Message(0, 0, ZeroPeer)

\* The zero-initialised table and the record of the last call.
InitGlobals ==
    /\ lookup_cache = [i \in Slots |-> Entry(0, 0, ZeroPeer)]
    /\ clock = 0
    /\ alive = TRUE
    /\ op = "init"
    /\ rx = NoMessage
    /\ sent = <<>>
    /\ query = 0
    /\ resolved = NullPtr
    /\ replies = 0
    /\ sendto_result = "none"

\* One node on its own: nothing in flight, no case exercised.
InitAux ==
    /\ net = {}
    /\ hosts = <<>>
    /\ scenario = <<>>
    /\ outcome = <<>>

Init ==
    /\ self = SelfPeer
    /\ \E r \in Rings : predecessor = r[1] /\ successor = r[2]
    /\ little_endian \in BOOLEAN
    /\ InitGlobals
    /\ InitAux

(***************************************************************************)
(* Actions                                                                 *)
(***************************************************************************)
\* The datagram that deserializes to msg.
Wire(msg) == dht_serialize(msg)

\* dht_process_message without the final else: what is no LOOKUP is taken
\* for a REPLY.
Dispatch_ElseReply(msg) ==
    IF msg.flags = LOOKUP THEN "lookup" ELSE "reply"

\* dht_process_message: the branch taken for a message.
Dispatch(msg) ==
    IF msg.flags = LOOKUP THEN "lookup"
    ELSE IF msg.flags = REPLY THEN "reply"
    ELSE "invalid"

\* dht_handle_socket: recvfrom fails, dht_recv exits.
RecvFail ==
    /\ alive
    /\ alive' = FALSE
    /\ op' = "recv_failed"
    /\ rx' = NoMessage
    /\ sent' = <<>>
    /\ query' = 0
    /\ resolved' = NullPtr
    /\ sendto_result' = "none"
    /\ UNCHANGED <<predecessor, self, successor, lookup_cache, little_endian,
                   clock, replies>>
    /\ UNCHANGED aux

\* dht_handle_socket: a datagram is received, deserialized and processed.
\* t is the reading of the clock while it is processed (process_lookup reads
\* it through outdated, process_reply directly; an invalid message is
\* dropped without a reading). The readings of time_ms() within one call
\* are taken to fall into the same millisecond, and the clock does not run
\* backwards between calls. sendok is the outcome of sendto() in dht_send,
\* which exits on failure.
HandleSocket(wire, t, sendok) ==
    LET msg == dht_deserialize(wire)
        d == Dispatch(msg)
        r == dht_responsible(msg.hash, t)
    IN  /\ alive
        /\ t >= clock
        /\ rx' = wire
        /\ clock' = IF d = "invalid" THEN clock ELSE t
        /\ query' = IF d = "lookup" THEN msg.hash ELSE 0
        /\ resolved' = IF d = "lookup" THEN r ELSE NullPtr
        /\ sent' = IF d = "lookup" THEN <<process_lookup(msg, t)>> ELSE <<>>
        /\ sendto_result' = IF d = "lookup" THEN sendto(sendok) ELSE "none"
        /\ alive' = IF d = "lookup" THEN ~dht_send_exits(sendok) ELSE TRUE
        /\ lookup_cache' = IF d = "reply" THEN process_reply(msg, t)
                                          ELSE lookup_cache
        /\ replies' = IF d = "reply" THEN replies + 1 ELSE replies
        /\ op' = CASE d = "lookup" ->
                        IF peer_cmp(SuccessorPtr, r) THEN "lookup_reply"
                                                     ELSE "lookup_forward"
                   [] d = "reply" ->
                        IF ReplySlot(msg, t).refresh THEN "reply_refresh"
                                                     ELSE "reply_evict"
                   [] OTHER -> "invalid"
        /\ UNCHANGED <<predecessor, self, successor, little_endian>>

\* A call of dht_responsible(id) from outside the core.
Resolve(id, t) ==
    /\ alive
    /\ t >= clock
    /\ clock' = t
    /\ query' = id
    /\ resolved' = dht_responsible(id, t)
    /\ op' = "resolve"
    /\ rx' = NoMessage
    /\ sent' = <<>>
    /\ sendto_result' = "none"
    /\ UNCHANGED <<predecessor, self, successor, lookup_cache, little_endian,
                   alive, replies>>

\* dht_lookup(id)
DhtLookup(id, sendok) ==
    /\ alive
    /\ sent' = <<Datagram(Message(LOOKUP, id, self), successor)>>
    /\ op' = "dht_lookup"
    /\ rx' = NoMessage
    /\ query' = 0
    /\ resolved' = NullPtr
    /\ sendto_result' = sendto(sendok)
    /\ alive' = ~dht_send_exits(sendok)
    /\ UNCHANGED <<predecessor, self, successor, lookup_cache, little_endian,
                   clock, replies>>

\* send_join(peer)
\* send_join that fills in its own id as the hash.
SendJoin_HashSelf(peer, sendok) ==
    /\ alive
    /\ sent' = <<Datagram(Message(JOIN, self.id, self), peer)>>
    /\ op' = "send_join"
    /\ rx' = NoMessage
    /\ query' = 0
    /\ resolved' = NullPtr
    /\ sendto_result' = sendto(sendok)
    /\ alive' = ~dht_send_exits(sendok)
    /\ UNCHANGED <<predecessor, self, successor, lookup_cache, little_endian,
                   clock, replies>>

SendJoin(peer, sendok) ==
    /\ alive
    /\ sent' = <<Datagram(Message(JOIN, 0, self), peer)>>
    /\ op' = "send_join"
    /\ rx' = NoMessage
    /\ query' = 0
    /\ resolved' = NullPtr
    /\ sendto_result' = sendto(sendok)
    /\ alive' = ~dht_send_exits(sendok)
    /\ UNCHANGED <<predecessor, self, successor, lookup_cache, little_endian,
                   clock, replies>>

(***************************************************************************)
(* Spec: every entry point, with inputs from the small sets above          *)
(***************************************************************************)
RecvLookup ==
    /\ \E id \in LookupIds, o \in Originators, t \in Times, ok \in BOOLEAN :
        HandleSocket(Wire(Message(LOOKUP, id, o)), t, ok)
    /\ UNCHANGED aux

RecvReply ==
    /\ replies < MaxReplies
    /\ \E h \in ReplyHashes, p \in ReplyPeers, t \in Times :
        HandleSocket(Wire(Message(REPLY, h, p)), t, TRUE)
    /\ UNCHANGED aux

RecvInvalid ==
    /\ \E f \in InvalidOpcodes :
        HandleSocket(Wire(Message(f, self.id, self)), clock, TRUE)
    /\ UNCHANGED aux

CallResolve ==
    /\ \E id \in LookupIds, t \in Times : Resolve(id, t)
    /\ UNCHANGED aux

CallLookup ==
    /\ \E id \in LookupIds, ok \in BOOLEAN : DhtLookup(id, ok)
    /\ UNCHANGED aux

CallJoin ==
    /\ \E p \in JoinTargets, ok \in BOOLEAN : SendJoin(p, ok)
    /\ UNCHANGED aux

Next ==
    \/ RecvFail
    \/ RecvLookup
    \/ RecvReply
    \/ RecvInvalid
    \/ CallResolve
    \/ CallLookup
    \/ CallJoin

Spec == Init /\ [][Next]_vars

(***************************************************************************)
(* SpecFill: the cache is filled by REPLY messages that carry pairwise     *)
(* distinct peers, one more than the table has slots.                      *)
(***************************************************************************)
\* The k-th peer of the filling sequence; its predecessor is the (k-1)-th.
FillPeer(k) == Peer(k, <<10, 0, 1, k>>, 5000 + k)

FillReply ==
    /\ replies <= LOOKUP_CACHE_ENTRIES
    /\ \E t \in Times :
        HandleSocket(Wire(Message(REPLY, replies, FillPeer(replies + 1))), t, TRUE)
    /\ UNCHANGED aux

SpecFill == Init /\ [][FillReply]_vars

(***************************************************************************)
(* SpecBurst: REPLY messages only, as many as in SpecFill, for the         *)
(* all-zero peer and one other peer.                                       *)
(***************************************************************************)
BurstPeers == {ZeroPeer, PeerC}
BurstHashes == {30000}

InitBurst ==
    /\ Init
    /\ little_endian
    /\ predecessor = PeerP
    /\ successor = PeerQ

BurstReply ==
    /\ replies <= LOOKUP_CACHE_ENTRIES
    /\ \E h \in BurstHashes, p \in BurstPeers, t \in Times :
        HandleSocket(Wire(Message(REPLY, h, p)), t, TRUE)
    /\ UNCHANGED aux

SpecBurst == InitBurst /\ [][BurstReply]_vars

(***************************************************************************)
(* Properties                                                              *)
(***************************************************************************)
\* Slot i of the cache is written differently by the step.
Changed(i) == lookup_cache'[i] # lookup_cache[i]

\* The timestamp of slot i is minimal over the table.
Oldest(i) == \A j \in Slots : lookup_cache[i].entry <= lookup_cache[j].entry

LookupOps == {"lookup_reply", "lookup_forward"}
ResolveOps == LookupOps \cup {"resolve"}

\* Slot i holds a non-stale claim of responsibility for the id resolved last.
LiveMatch(i) ==
    /\ clock - lookup_cache[i].entry < LOOKUP_CACHE_VALIDIY_MS
    /\ is_responsible(lookup_cache[i].predecessor, lookup_cache[i].peer.id, query)

\* C1 (SpecFill): from the empty cache, each of the first 30 REPLYs for
\* pairwise distinct peers is stored and overwrites no slot that holds the
\* peer of an earlier one; the 31st overwrites a slot whose timestamp is the
\* smallest of the table.
C1_FillThenEvictOldest ==
    [][ (replies' = replies + 1) =>
          /\ \E i \in Slots : lookup_cache'[i].peer = FillPeer(replies + 1)
          /\ (replies < LOOKUP_CACHE_ENTRIES =>
                \A i \in Slots :
                    (lookup_cache[i].peer \in {FillPeer(k) : k \in 1..replies})
                        => ~Changed(i))
          /\ (replies = LOOKUP_CACHE_ENTRIES =>
                \A i \in Slots : Changed(i) => Oldest(i)) ]_vars

\* C2: the slot overwritten by the eviction pass of process_reply has a
\* timestamp that is minimal over all slots.
C2_EvictsMinimalTimestamp ==
    [][ (op' = "reply_evict") =>
          \A i \in Slots : Changed(i) => Oldest(i) ]_vars

\* C3 (SpecBurst): a REPLY whose peer some slot already holds changes only
\* the timestamp (to now) and the predecessor id (to the reply's hash) of one
\* slot holding that peer, whatever the clock reads.
C3_RefreshTouchesOneSlot ==
    [][ LET msg == dht_deserialize(rx')
        IN  ( /\ replies' = replies + 1
              /\ \E i \in Slots : lookup_cache[i].peer = msg.peer )
            => \E i \in Slots :
                  /\ lookup_cache[i].peer = msg.peer
                  /\ lookup_cache' =
                        [lookup_cache EXCEPT ![i].entry = clock',
                                             ![i].predecessor = msg.hash] ]_vars

\* C4: no two populated slots (timestamp # 0) hold the same peer.
C4_NoDuplicatePeers ==
    \A i, j \in Slots :
        (i # j /\ lookup_cache[i].entry # 0 /\ lookup_cache[j].entry # 0)
            => lookup_cache[i].peer # lookup_cache[j].peer

\* C5: a call of dht_responsible leaves the cache as it was and never returns
\* a cache slot whose timestamp lies 2000 ms or more before the clock reading.
C5_StaleNeverResolved ==
    [][ (op' \in ResolveOps) =>
          /\ lookup_cache' = lookup_cache
          /\ (resolved'.loc = "lookup_cache" =>
                clock' - lookup_cache[resolved'.idx].entry
                    < LOOKUP_CACHE_VALIDIY_MS) ]_vars

\* A stale entry that claims the id was resolved past: the answer is unknown.
C5_Witness ==
    /\ op = "resolve"
    /\ resolved = NullPtr
    /\ \E i \in Slots :
          /\ lookup_cache[i].entry # 0
          /\ clock - lookup_cache[i].entry >= LOOKUP_CACHE_VALIDIY_MS
          /\ is_responsible(lookup_cache[i].predecessor,
                            lookup_cache[i].peer.id, query)

\* C6: a LOOKUP whose resolved peer is unknown or differs from successor
\* causes exactly one sendto: the datagram as received, to successor's
\* address; the cache and the three peer slots stay as they were.
C6_ForwardUnmodified ==
    [][ ( /\ op' \in LookupOps
          /\ (resolved'.loc = "NULL" \/ Deref(resolved') # successor) )
        => /\ sent' = <<[msg |-> rx', addr |-> peer_to_sockaddr(successor)]>>
           /\ dht_deserialize(sent'[1].msg).flags = LOOKUP
           /\ UNCHANGED <<lookup_cache, predecessor, self, successor>> ]_vars

\* A LOOKUP owned by a cached peer other than successor was forwarded.
C6_Witness ==
    /\ op = "lookup_forward"
    /\ resolved.loc = "lookup_cache"
    /\ lookup_cache[resolved.idx].entry # 0
    /\ dht_deserialize(rx).peer # self
    /\ Len(sent) = 1

\* C7: a LOOKUP whose resolved peer equals successor causes exactly one
\* sendto: a REPLY with hash = self.id and peer = successor, to the address of
\* the originator the LOOKUP carries.
C7_ReplyToOriginator ==
    ( /\ op \in LookupOps
      /\ resolved.loc # "NULL"
      /\ Deref(resolved) = successor )
    => sent = <<[msg |-> dht_serialize(Message(REPLY, self.id, successor)),
                 addr |-> peer_to_sockaddr(dht_deserialize(rx).peer)]>>

\* A LOOKUP owned by successor was answered to an originator that is neither
\* successor nor this node.
C7_Witness ==
    /\ op = "lookup_reply"
    /\ resolved = SuccessorPtr
    /\ successor = PeerQ
    /\ dht_deserialize(rx).peer = PeerC
    /\ Len(sent) = 1

\* C8: a message with opcode STABILIZE, NOTIFY, JOIN or a value outside 0..4
\* causes no sendto, changes no cache slot and no peer slot, and the process
\* keeps running.
C8_InvalidDropped ==
    [][ LET flags == dht_deserialize(rx').flags
        IN  (flags \in {STABILIZE, NOTIFY, JOIN} \/ flags \notin 0..(N_OPCODES - 1))
            => /\ sent' = <<>>
               /\ UNCHANGED <<lookup_cache, predecessor, self, successor>>
               /\ alive' ]_vars

\* An opcode outside the enum was dropped with a populated cache.
C8_Witness ==
    /\ op = "invalid"
    /\ rx.flags = 255
    /\ replies > 0
    /\ alive

\* C9: dht_responsible returns self when self is responsible; else successor
\* when successor is; else the lowest-index non-stale slot whose
\* (predecessor, peer.id) is responsible; else NULL.
C9_PriorityOrder ==
    (op \in ResolveOps) =>
        LET own == is_responsible(predecessor.id, self.id, query)
            succ == is_responsible(self.id, successor.id, query)
        IN  /\ own => resolved = SelfPtr
            /\ (~own /\ succ) => resolved = SuccessorPtr
            /\ (~own /\ ~succ /\ (\E i \in Slots : LiveMatch(i))) =>
                  /\ resolved.loc = "lookup_cache"
                  /\ LiveMatch(resolved.idx)
                  /\ \A j \in Slots : LiveMatch(j) => resolved.idx <= j
            /\ (~own /\ ~succ /\ ~(\E i \in Slots : LiveMatch(i))) =>
                  resolved = NullPtr

\* A populated slot was returned although a higher slot matches as well.
C9_Witness ==
    /\ op = "resolve"
    /\ resolved.loc = "lookup_cache"
    /\ lookup_cache[resolved.idx].entry # 0
    /\ \E j \in Slots :
          j > resolved.idx /\ lookup_cache[j].entry # 0 /\ LiveMatch(j)

\* C10: while predecessor or successor is the all-zero sentinel,
\* dht_responsible never returns the all-zero peer and processing a LOOKUP
\* never sends to the all-zero address.
C10_NeverZeroPeer ==
    (predecessor = ZeroPeer \/ successor = ZeroPeer) =>
        /\ (resolved.loc # "NULL" => Deref(resolved) # ZeroPeer)
        /\ (op \in LookupOps =>
              \A k \in 1..Len(sent) : sent[k].addr # peer_to_sockaddr(ZeroPeer))

(***************************************************************************)
(* The codec on its own: a message buffer holding any bit pattern, and the *)
(* two in-place conversions applied to it in any order.                    *)
(***************************************************************************)
MaxCodecCalls == 2

CodecFlags == {LOOKUP, REPLY, JOIN, 255}
CodecShorts == {0, 1, 256, 4660, 65535}
CodecIds == {0, 258, 65535}
CodecAddrs == {<<0, 0, 0, 0>>, <<10, 0, 0, 1>>, <<1, 2, 3, 4>>, <<255, 255, 255, 255>>}
CodecPorts == {0, 4001}

CodecMessages ==
    {Message(f, h, Peer(i, a, p)) :
        f \in CodecFlags, h \in CodecShorts, i \in CodecIds,
        a \in CodecAddrs, p \in CodecPorts}

InitCodec ==
    /\ self = SelfPeer
    /\ predecessor = SelfPeer
    /\ successor = SelfPeer
    /\ little_endian \in BOOLEAN
    /\ InitGlobals
    /\ net = {}
    /\ hosts = <<>>
    /\ scenario \in CodecMessages
    /\ outcome = [buffer |-> scenario, calls |-> <<>>]

CodecSerialize ==
    /\ Len(outcome.calls) < MaxCodecCalls
    /\ outcome' = [buffer |-> dht_serialize(outcome.buffer),
                   calls |-> Append(outcome.calls, "dht_serialize")]
    /\ UNCHANGED <<predecessor, self, successor, lookup_cache, little_endian,
                   clock, alive, op, rx, sent, query, resolved, replies,
                   sendto_result, net, hosts, scenario>>

CodecDeserialize ==
    /\ Len(outcome.calls) < MaxCodecCalls
    /\ outcome' = [buffer |-> dht_deserialize(outcome.buffer),
                   calls |-> Append(outcome.calls, "dht_deserialize")]
    /\ UNCHANGED <<predecessor, self, successor, lookup_cache, little_endian,
                   clock, alive, op, rx, sent, query, resolved, replies,
                   sendto_result, net, hosts, scenario>>

NextCodec == CodecSerialize \/ CodecDeserialize

SpecCodec == InitCodec /\ [][NextCodec]_vars

\* The values a packed struct dht_message can hold.
IsMessage(m) ==
    /\ m.flags \in 0..255
    /\ m.hash \in 0..(RING_SIZE - 1)
    /\ m.peer.id \in 0..(RING_SIZE - 1)
    /\ m.peer.port \in 0..(RING_SIZE - 1)
    /\ \A k \in 1..4 : m.peer.ip[k] \in 0..255

\* C11: for every message bit pattern m, deserialize(serialize(m)) = m and
\* serialize(deserialize(m)) = m; neither conversion touches the opcode byte,
\* and both yield a message for every input (neither rejects one).
C11_RoundTrip ==
    /\ outcome.calls \in {<<"dht_serialize", "dht_deserialize">>,
                          <<"dht_deserialize", "dht_serialize">>}
          => outcome.buffer = scenario
    /\ outcome.buffer.flags = scenario.flags
    /\ IsMessage(outcome.buffer)
    /\ Len(outcome.calls) < MaxCodecCalls
          => ENABLED CodecSerialize /\ ENABLED CodecDeserialize

\* A message whose fields change under the conversion came back unchanged.
C11_Witness ==
    /\ outcome.calls = <<"dht_serialize", "dht_deserialize">>
    /\ little_endian
    /\ scenario.hash = 4660
    /\ scenario.flags = 255
    /\ dht_serialize(scenario) # scenario
    /\ outcome.buffer = scenario

(***************************************************************************)
(* The ring arithmetic on its own: the distances is_responsible computes,  *)
(* is_responsible itself, and the owners of an id in a ring of nodes with  *)
(* correct predecessor pointers.                                           *)
(***************************************************************************)
MaxNodes == 3

ArithIds == {0, 1, 1000, 32767, 32768, 65534, 65535}

\* The clockwise distance from one id to another, as is_responsible
\* computes the distance from id to a peer: peer - id in a dht_id.
distance(from, to) == Sub16(to, from)

Max(S) == CHOOSE x \in S : \A y \in S : y <= x
Min(S) == CHOOSE x \in S : \A y \in S : x <= y

\* The neighbours of node n in the ring formed by the ids R.
RingPredecessor(R, n) ==
    LET below == {m \in R : m < n}
    IN  IF below # {} THEN Max(below) ELSE Max(R)

RingSuccessor(R, n) ==
    LET above == {m \in R : m > n}
    IN  IF above # {} THEN Min(above) ELSE Min(R)

ArithRings == {R \in SUBSET ArithIds : Cardinality(R) \in 2..MaxNodes}

InitArith ==
    /\ self = SelfPeer
    /\ predecessor = SelfPeer
    /\ successor = SelfPeer
    /\ little_endian = TRUE
    /\ InitGlobals
    /\ InitAux

ArithDistance ==
    /\ \E a \in ArithIds, b \in ArithIds :
          /\ scenario' = [call |-> "distance", args |-> <<a, b>>]
          /\ outcome' = <<distance(a, b), distance(b, a)>>
    /\ UNCHANGED <<predecessor, self, successor, lookup_cache, little_endian,
                   clock, alive, op, rx, sent, query, resolved, replies,
                   sendto_result, net, hosts>>

ArithResponsible ==
    /\ \E pp \in ArithIds, p \in ArithIds, id \in ArithIds :
          /\ scenario' = [call |-> "is_responsible", args |-> <<pp, p, id>>]
          /\ outcome' = is_responsible(pp, p, id)
    /\ UNCHANGED <<predecessor, self, successor, lookup_cache, little_endian,
                   clock, alive, op, rx, sent, query, resolved, replies,
                   sendto_result, net, hosts>>

ArithOwners ==
    /\ \E R \in ArithRings, id \in ArithIds :
          /\ scenario' = [call |-> "owners", args |-> <<R, id>>]
          /\ outcome' = {n \in R : is_responsible(RingPredecessor(R, n), n, id)}
    /\ UNCHANGED <<predecessor, self, successor, lookup_cache, little_endian,
                   clock, alive, op, rx, sent, query, resolved, replies,
                   sendto_result, net, hosts>>

NextArith == ArithDistance \/ ArithResponsible \/ ArithOwners

SpecArith == InitArith /\ [][NextArith]_vars

Called(name) == scenario # <<>> /\ scenario.call = name

\* C12: distance(a, a) = 0, and for a # b both distance(a, b) and
\* distance(b, a) are nonzero and add up to 65536.
C12_DistancesComplement ==
    Called("distance") =>
        LET a == scenario.args[1]
            b == scenario.args[2]
        IN  /\ a = b => outcome[1] = 0
            /\ a # b => /\ outcome[1] # 0
                        /\ outcome[2] # 0
                        /\ outcome[1] + outcome[2] = 65536

\* Two distinct ids whose plain difference is negative one way round.
C12_Witness ==
    /\ Called("distance")
    /\ scenario.args = <<65535, 1>>
    /\ outcome = <<2, 65534>>

\* id lies in the half-open clockwise interval (pred, peer], pred # peer.
InInterval(pred, peer, id) ==
    IF pred < peer THEN pred < id /\ id <= peer
                   ELSE id > pred \/ id <= peer

\* C13: is_responsible(p, p, id) is true for every p and id; for
\* pred # peer, is_responsible(pred, peer, id) is true exactly when id lies
\* in (pred, peer]: it is true for id = peer and false for id = pred.
C13_HalfOpenInterval ==
    Called("is_responsible") =>
        LET pred == scenario.args[1]
            peer == scenario.args[2]
            id == scenario.args[3]
        IN  /\ pred = peer => outcome = TRUE
            /\ pred # peer =>
                  /\ outcome = InInterval(pred, peer, id)
                  /\ id = peer => outcome = TRUE
                  /\ id = pred => outcome = FALSE

\* An interval that wraps through 0, asked about an id beyond the wrap.
C13_Witness ==
    /\ Called("is_responsible")
    /\ scenario.args = <<65534, 1, 0>>
    /\ outcome = TRUE

\* C18: in a ring of at least two nodes with distinct ids and correct
\* predecessor pointers, exactly one node n has
\* is_responsible(n.predecessor.id, n.id, id), for every id.
C18_ExactlyOneOwner ==
    Called("owners") => Cardinality(outcome) = 1

\* Three nodes, and an id in the interval that wraps through 0.
C18_Witness ==
    /\ Called("owners")
    /\ scenario.args = <<{1000, 32768, 65534}, 0>>
    /\ outcome = {1000}

(***************************************************************************)
(* The cache around the validity boundary: replies and lookups at clock    *)
(* readings just below, at and just above LOOKUP_CACHE_VALIDIY_MS.         *)
(***************************************************************************)
StaleTimes ==
    {1, LOOKUP_CACHE_VALIDIY_MS - 1, LOOKUP_CACHE_VALIDIY_MS,
     LOOKUP_CACHE_VALIDIY_MS + 1}

StaleHashes == {0, 30000}

StaleReply ==
    /\ replies < MaxReplies
    /\ \E h \in StaleHashes, p \in ReplyPeers, t \in StaleTimes :
        HandleSocket(Wire(Message(REPLY, h, p)), t, TRUE)
    /\ UNCHANGED aux

StaleLookup ==
    /\ \E id \in LookupIds, t \in StaleTimes :
        HandleSocket(Wire(Message(LOOKUP, id, PeerC)), t, TRUE)
    /\ UNCHANGED aux

StaleResolve ==
    /\ \E id \in LookupIds, t \in StaleTimes : Resolve(id, t)
    /\ UNCHANGED aux

NextStale == StaleReply \/ StaleLookup \/ StaleResolve

SpecStale == InitBurst /\ [][NextStale]_vars

\* Slot i is as the zero-initialisation left it.
NeverPopulated(i) == lookup_cache[i] = Entry(0, 0, ZeroPeer)

\* C14: at a clock reading of 2000 ms or more, the cache scan of
\* dht_responsible never returns a never-populated slot, and the timestamp
\* of a never-populated slot is strictly less than that of every slot a
\* REPLY has written.
C14_EmptySlotsStale ==
    /\ (op \in ResolveOps /\ clock >= 2000 /\ resolved.loc = "lookup_cache")
          => ~NeverPopulated(resolved.idx)
    /\ \A i \in Slots, j \in Slots :
          (NeverPopulated(i) /\ ~NeverPopulated(j))
              => lookup_cache[i].entry < lookup_cache[j].entry

\* At exactly 2000 ms the scan passed never-populated slots that cover the
\* id and returned a slot a REPLY wrote.
C14_Witness ==
    /\ op = "resolve"
    /\ clock = 2000
    /\ resolved.loc = "lookup_cache"
    /\ ~NeverPopulated(resolved.idx)
    /\ \E i \in Slots :
          /\ i < resolved.idx
          /\ NeverPopulated(i)
          /\ is_responsible(lookup_cache[i].predecessor,
                            lookup_cache[i].peer.id, query)

\* C15: whenever processing a LOOKUP for X sends a REPLY (hash = self.id,
\* peer = successor), is_responsible(self.id, successor.id, X) holds,
\* whatever the cache holds.
C15_ReplyOnlyIfSuccessorOwns ==
    (op = "lookup_reply") => is_responsible(self.id, successor.id, query)

ReplyOps == {"reply_refresh", "reply_evict"}
ProcessOps == LookupOps \cup ReplyOps \cup {"invalid"}

\* What C16 says of every message and of a LOOKUP, and that a REPLY sends
\* nothing.
FrameOfProcessing ==
    /\ (op' \in ProcessOps) => UNCHANGED <<predecessor, self, successor>>
    /\ (op' \in LookupOps) => UNCHANGED lookup_cache
    /\ (op' \in ReplyOps) => sent' = <<>>

\* C16 as stated: message processing never modifies predecessor, self or
\* successor; processing a LOOKUP never modifies any cache slot; processing
\* a REPLY never sends a message and modifies exactly one cache slot.
C16_ReplyModifiesOneSlot ==
    [][/\ FrameOfProcessing
       /\ (op' \in ReplyOps) => Cardinality({i \in Slots : Changed(i)}) = 1]_vars

\* C16, amended: message processing never modifies predecessor, self or
\* successor; processing a LOOKUP never modifies any cache slot; processing
\* a REPLY never sends a message and writes exactly one cache slot, which
\* then holds the current time and the reply's hash, every other slot being
\* left as it was (no slot changes when the slot written already held these
\* values).
C16_ReplyWritesOneSlot ==
    [][/\ FrameOfProcessing
       /\ (op' \in ReplyOps) =>
            \E i \in Slots :
                /\ lookup_cache'[i].entry = clock'
                /\ lookup_cache'[i].predecessor = dht_deserialize(rx').hash
                /\ lookup_cache'[i].peer
                      \in {lookup_cache[i].peer, dht_deserialize(rx').peer}
                /\ \A j \in Slots \ {i} : ~Changed(j)]_vars

\* The same REPLY a second time within one millisecond: the slot written
\* already held its values.
C16_Witness ==
    /\ op = "reply_evict"
    /\ replies = 2
    /\ lookup_cache[LOOKUP_CACHE_ENTRIES - 1] =
          Entry(clock, dht_deserialize(rx).hash, dht_deserialize(rx).peer)
    /\ \A i \in Slots : i < LOOKUP_CACHE_ENTRIES - 1 => NeverPopulated(i)

\* C20: when sendto() fails while a LOOKUP is processed (forwarding it or
\* replying to it), the node terminates at once: that one sendto() call is
\* all it sent, and it takes no step afterwards.
C20_SendFailureTerminates ==
    [][/\ alive
       /\ (op' \in LookupOps /\ sendto_result' = "error") =>
             /\ ~alive'
             /\ Len(sent') = 1]_vars

\* A forward whose sendto() failed.
C20_Witness ==
    /\ op = "lookup_forward"
    /\ sendto_result = "error"
    /\ Len(sent) = 1
    /\ ~alive

(***************************************************************************)
(* A ring of nodes that each run this core, with correct predecessor and   *)
(* successor pointers, empty caches and reliable delivery.  The globals    *)
(* predecessor, self, successor and lookup_cache are those of the node     *)
(* that runs; hosts keeps the globals of every node while another runs,    *)
(* and net holds the datagrams sent and not yet received, in order.        *)
(***************************************************************************)
NetIds == {0, 1000, 3000, 60000}
NetLookupIds == {0, 500, 1000, 2000, 3000, 40000, 60000, 65535}

NetRings == {R \in SUBSET NetIds : Cardinality(R) \in 1..MaxNodes}

NetPeer(id) == Peer(id, <<10, 1, id \div 256, id % 256>>, 4000)

\* The globals of node n of ring R as the surrounding program set them up.
NetHost(R, n) ==
    [predecessor |-> NetPeer(RingPredecessor(R, n)),
     self |-> NetPeer(n),
     successor |-> NetPeer(RingSuccessor(R, n)),
     lookup_cache |-> [i \in Slots |-> Entry(0, 0, ZeroPeer)]]

\* The globals of the running node.
Running ==
    [predecessor |-> predecessor, self |-> self, successor |-> successor,
     lookup_cache |-> lookup_cache]

NetScenarios ==
    {[call |-> c, ring |-> R, origin |-> o, arg |-> a] :
        c \in {"dht_lookup", "send_join"}, R \in NetRings,
        o \in NetIds, a \in NetLookupIds \cup NetIds}

InitNet ==
    /\ scenario \in NetScenarios
    /\ scenario.origin \in scenario.ring
    /\ scenario.call = "dht_lookup" => scenario.arg \in NetLookupIds
    /\ scenario.call = "send_join" => scenario.arg \in scenario.ring
    /\ hosts = [n \in scenario.ring |-> NetHost(scenario.ring, n)]
    /\ predecessor = hosts[scenario.origin].predecessor
    /\ self = hosts[scenario.origin].self
    /\ successor = hosts[scenario.origin].successor
    /\ little_endian \in BOOLEAN
    /\ InitGlobals
    /\ net = <<>>
    /\ outcome = [issued |-> FALSE, forwards |-> 0, delivered |-> <<>>]

\* The originator calls dht_lookup(arg).
NetLookup ==
    /\ scenario.call = "dht_lookup"
    /\ ~outcome.issued
    /\ DhtLookup(scenario.arg, TRUE)
    /\ net' = sent'
    /\ outcome' = [outcome EXCEPT !.issued = TRUE]
    /\ UNCHANGED <<hosts, scenario>>

\* The originator calls send_join with the node arg as the target.
NetJoin ==
    /\ scenario.call = "send_join"
    /\ ~outcome.issued
    /\ SendJoin(NetPeer(scenario.arg), TRUE)
    /\ net' = sent'
    /\ outcome' = [outcome EXCEPT !.issued = TRUE]
    /\ UNCHANGED <<hosts, scenario>>

\* The oldest datagram in flight is for another node: that node runs next.
NetSwitch ==
    /\ net # <<>>
    /\ Head(net).addr # peer_to_sockaddr(self)
    /\ \E n \in DOMAIN hosts :
          /\ Head(net).addr = peer_to_sockaddr(hosts[n].self)
          /\ hosts' = [hosts EXCEPT ![self.id] = Running]
          /\ predecessor' = hosts[n].predecessor
          /\ self' = hosts[n].self
          /\ successor' = hosts[n].successor
          /\ lookup_cache' = hosts[n].lookup_cache
    /\ op' = "switch"
    /\ rx' = NoMessage
    /\ sent' = <<>>
    /\ query' = 0
    /\ resolved' = NullPtr
    /\ sendto_result' = "none"
    /\ UNCHANGED <<little_endian, clock, alive, replies, net, scenario, outcome>>

\* The running node receives the oldest datagram in flight, which is
\* addressed to it, and what it sends is in flight afterwards.
NetRecv ==
    /\ net # <<>>
    /\ Head(net).addr = peer_to_sockaddr(self)
    /\ \E t \in Times : HandleSocket(Head(net).msg, t, TRUE)
    /\ net' = Tail(net) \o sent'
    /\ outcome' =
          [outcome EXCEPT
             !.forwards = IF op' = "lookup_forward" THEN @ + 1 ELSE @,
             !.delivered = IF op' \in {"reply_refresh", "reply_evict"}
                              /\ self.id = scenario.origin
                           THEN Append(@, dht_deserialize(rx'))
                           ELSE @]
    /\ UNCHANGED <<hosts, scenario>>

NextNet == NetLookup \/ NetJoin \/ NetSwitch \/ NetRecv

\* Every node's loop polls its socket again and again, and delivery is
\* reliable: a step that is possible is eventually taken.
SpecNet == InitNet /\ [][NextNet]_vars /\ WF_vars(NextNet)

\* The node of ring R that owns id: the only node of a ring of one,
\* otherwise the node n with id in (predecessor of n, n].
Owner(R, id) ==
    IF Cardinality(R) = 1 THEN CHOOSE n \in R : TRUE
    ELSE CHOOSE n \in R : InInterval(RingPredecessor(R, n), n, id)

\* C17: in a ring of N >= 1 nodes with distinct ids, correct pointers,
\* empty caches and reliable delivery, a LOOKUP for any id X issued by any
\* node through dht_lookup is forwarded at most N times and eventually
\* results in exactly one REPLY delivered to the originator, whose peer is
\* the node that owns X and whose hash is that owner's predecessor id; the
\* LOOKUP does not circulate forever.
C17_LookupAnswered ==
    /\ [](scenario.call = "dht_lookup" =>
            /\ outcome.forwards <= Cardinality(scenario.ring)
            /\ Len(outcome.delivered) <= 1
            /\ \A k \in 1..Len(outcome.delivered) :
                  LET owner == Owner(scenario.ring, scenario.arg)
                  IN  /\ outcome.delivered[k].flags = REPLY
                      /\ outcome.delivered[k].peer = NetPeer(owner)
                      /\ outcome.delivered[k].hash =
                            RingPredecessor(scenario.ring, owner))
    /\ (scenario.call = "dht_lookup") =>
          <>[](Len(outcome.delivered) = 1 /\ net = <<>>)

\* In a ring of three the originator asked for an id it owns itself, the
\* LOOKUP went round the ring, and the one REPLY reached the originator.
C17_Witness ==
    /\ scenario.call = "dht_lookup"
    /\ Cardinality(scenario.ring) = 3
    /\ Owner(scenario.ring, scenario.arg) = scenario.origin
    /\ outcome.forwards = 1
    /\ Len(outcome.delivered) = 1
    /\ self.id = scenario.origin
    /\ net = <<>>

\* C19: send_join(target) sends exactly one message, to target, with
\* opcode JOIN, hash 0 and peer = self, and changes no peer slot and no
\* cache slot; a node that receives that JOIN sends nothing back and
\* changes no state.
C19_JoinSentAndIgnored ==
    [][/\ (op' = "send_join") =>
             /\ Len(sent') = 1
             /\ sent'[1].addr = peer_to_sockaddr(NetPeer(scenario.arg))
             /\ dht_deserialize(sent'[1].msg) = Message(JOIN, 0, self)
             /\ UNCHANGED <<predecessor, self, successor, lookup_cache>>
       /\ (dht_deserialize(rx').flags = JOIN /\ rx' # rx) =>
             /\ op' = "invalid"
             /\ sent' = <<>>
             /\ net' = <<>>
             /\ UNCHANGED <<predecessor, self, successor, lookup_cache,
                            clock, alive, hosts>>]_vars

\* The JOIN of another node was received by its target.
C19_Witness ==
    /\ scenario.call = "send_join"
    /\ scenario.arg # scenario.origin
    /\ self.id = scenario.arg
    /\ op = "invalid"
    /\ dht_deserialize(rx) = Message(JOIN, 0, NetPeer(scenario.origin))
    /\ sent = <<>>

====
